---- MODULE Spec2Model ----
(***************************************************************************)
(* PC build model of monscc/PCPartPicker-NEA: the compatibility rule       *)
(* engine (pcbuilder/compat.py), the Build aggregate and the component     *)
(* factory (pcbuilder/models.py) and build persistence with share keys     *)
(* (pcbuilder/db.py, pcbuilder/database_manager.py).                       *)
(*                                                                         *)
(* Python values are tagged records: None, int and str.  A str is the      *)
(* tuple of its characters, so that int(), str.split and the `in` test     *)
(* are computed character by character.                                    *)
(***************************************************************************)
EXTENDS Integers, Sequences, FiniteSets, TLC

VARIABLES
    components,   \* Build.__components: category -> Component object or None
    lastOp,       \* the operation applied last to the build ("init": none yet)
    report,       \* list returned by the last run_full_check
    issues,       \* list returned by the last Build.get_compatibility_issues
    returned,     \* value returned by the last is_complete or
                  \* calculate_total_wattage; None after an add or a remove
    build,        \* the scalar fields of the Build: build_id, name, user_id,
                  \* share_key, created_at
    schemaUnique, \* whether the builds table was created with share_key UNIQUE
    builds,       \* the rows of the builds table
    nextId,       \* the next AUTOINCREMENT id of the builds table
    call,         \* per caller: the save in progress, and the last result
    clock,        \* the instant datetime.now() returns
    userRows,     \* the rows of the users table
    nextUserId,   \* the next AUTOINCREMENT id of the users table
    manager       \* the UndoRedoManager: undo_stack, redo_stack, max_history,
                  \* current_state

buildVars == <<components, lastOp, report, issues, returned>>

dbVars == <<build, schemaUnique, builds, nextId, call, clock>>

userVars == <<userRows, nextUserId>>

vars ==
    <<components, lastOp, report, issues, returned, build, schemaUnique, builds, nextId,
      call, clock, userRows, nextUserId, manager>>

-----------------------------------------------------------------------------
(* Python values *)

None == [t |-> "none"]
PyInt(n) == [t |-> "int", i |-> n]
PyStr(cs) == [t |-> "str", s |-> cs]
PyBool(b) == [t |-> "bool", b |-> b]

\* dict.get(key, default)
Get(d, key, default) == IF key \in DOMAIN d THEN d[key] ELSE default

\* the empty dict {}
EmptyDict == [k \in {} |-> None]

Digits == <<"0", "1", "2", "3", "4", "5", "6", "7", "8", "9">>

IsDigit(c) == \E k \in 1..10 : Digits[k] = c

DigitVal(c) == (CHOOSE k \in 1..10 : Digits[k] = c) - 1

\* str.strip(), for the blank character
RECURSIVE LStrip(_)
LStrip(cs) == IF cs # <<>> /\ Head(cs) = " " THEN LStrip(Tail(cs)) ELSE cs

RECURSIVE RStrip(_)
RStrip(cs) ==
    IF cs # <<>> /\ cs[Len(cs)] = " " THEN RStrip(SubSeq(cs, 1, Len(cs) - 1)) ELSE cs

Strip(cs) == RStrip(LStrip(cs))

AllDigits(cs) == cs # <<>> /\ \A k \in 1..Len(cs) : IsDigit(cs[k])

RECURSIVE DigitsVal(_)
DigitsVal(cs) ==
    IF cs = <<>> THEN 0
    ELSE 10 * DigitsVal(SubSeq(cs, 1, Len(cs) - 1)) + DigitVal(cs[Len(cs)])

\* int(x) of Python: [ok |-> FALSE] stands for the raised ValueError/TypeError.
\* An int is returned as it is; a str is stripped of blanks, may carry one
\* sign and must then be all decimal digits; None raises.
ToInt(x) ==
    IF x.t = "int" THEN [ok |-> TRUE, v |-> x.i]
    ELSE IF x.t = "str" THEN
        LET body == Strip(x.s)
            signed == body # <<>> /\ Head(body) \in {"+", "-"}
            digs == IF signed THEN Tail(body) ELSE body
        IN  IF AllDigits(digs)
            THEN [ok |-> TRUE,
                  v |-> IF signed /\ Head(body) = "-" THEN 0 - DigitsVal(digs)
                        ELSE DigitsVal(digs)]
            ELSE [ok |-> FALSE, v |-> 0]
    ELSE [ok |-> FALSE, v |-> 0]

\* str.split(sep) for a one-character separator: the list of the pieces
RECURSIVE Split(_, _)
Split(cs, sep) ==
    IF \A k \in 1..Len(cs) : cs[k] # sep THEN <<cs>>
    ELSE LET p == CHOOSE k \in 1..Len(cs) :
                      cs[k] = sep /\ \A j \in 1..(k - 1) : cs[j] # sep
         IN  <<SubSeq(cs, 1, p - 1)>> \o Split(SubSeq(cs, p + 1, Len(cs)), sep)

\* x in list
InList(x, list) == \E k \in 1..Len(list) : list[k] = x

\* sub in s, for two str (substring test)
Contains(cs, sub) ==
    \E k \in 0..(Len(cs) - Len(sub)) : SubSeq(cs, k + 1, k + Len(sub)) = sub

\* truthiness of a value: None, 0 and "" are false
Truthy(x) ==
    IF x.t = "none" THEN FALSE
    ELSE IF x.t = "int" THEN x.i # 0
    ELSE x.s # <<>>

\* a message built by an f-string: the template and the values put into it
Msg(fmt, args) == [fmt |-> fmt, args |-> args]

-----------------------------------------------------------------------------
(* Categories *)

\* ComponentCategory, in the order of the slots of Build.__components
CategoryOrder ==
    <<"CPU", "Motherboard", "RAM", "GPU", "Storage", "PSU", "Case", "Cooler">>

Categories == {CategoryOrder[k] : k \in 1..Len(CategoryOrder)}

-----------------------------------------------------------------------------
(* Components and the factory *)

\* ComponentFactory._component_map: the labels that have a variant
ComponentMap == {"CPU", "Motherboard", "GPU", "RAM", "Storage", "PSU", "Case", "Cooler"}

\* The concrete variant built by Component.__init__: cls is the class, whose
\* get_category() is fixed; the object stores no category of its own.
NewComponent(cls, component_id, name, price, attributes) ==
    [cls |-> cls, id |-> component_id, name |-> name, price |-> price,
     attributes |-> attributes]

\* <Variant>.get_category().value
get_category(c) == c.cls

\* a factory that builds a Storage component for a category it does not know
create_component_defaulting(component_id, name, category, price, attributes) ==
    [ok |-> TRUE,
     component |-> NewComponent(IF category \in ComponentMap THEN category ELSE "Storage",
                                component_id, name, price, attributes)]

\* ComponentFactory.create_component; ok = FALSE is the raised ValueError
create_component(component_id, name, category, price, attributes) ==
    IF category \notin ComponentMap
    THEN [ok |-> FALSE, component |-> None]
    ELSE [ok |-> TRUE,
          component |-> NewComponent(category, component_id, name, price, attributes)]

\* a record that leaves the attributes out
to_dict_without_attributes(c) ==
    [id |-> c.id, name |-> c.name, category |-> get_category(c),
     price |-> c.price, attributes |-> EmptyDict]

\* Component.to_dict
to_dict(c) ==
    [id |-> c.id, name |-> c.name, category |-> get_category(c),
     price |-> c.price, attributes |-> c.attributes]

\* Component.get_attribute
get_attribute(c, key, default) == Get(c.attributes, key, default)

-----------------------------------------------------------------------------
(* The parts table: the rows components are loaded from.  Prices are in    *)
(* pence.  The rows cover, for every attribute a rule reads, a value that  *)
(* is an int, a numeric str, a str that is no number, and no value.        *)

sAM5 == <<"A", "M", "5">>
sam5 == <<"a", "m", "5">>
sLGA == <<"L", "G", "A", "1", "7", "0", "0">>
sDDR4 == <<"D", "D", "R", "4">>
sDDR5 == <<"D", "D", "R", "5">>
sATX == <<"A", "T", "X">>
sMATX == <<"m", "A", "T", "X">>
sITX == <<"I", "T", "X">>
sATXmATX == sATX \o <<",">> \o sMATX
s300 == <<"3", "0", "0">>
s600 == <<"6", "0", "0">>
s399 == <<"3", "9", "9">>
s320 == <<" ", "3", "2", "0">>
s2 == <<"2">>
sTwo == <<"t", "w", "o">>
sX4 == <<"x", "4">>
sLong == <<"l", "o", "n", "g">>
sBig == <<"b", "i", "g">>
s7W == <<"7", "W">>
sAbc == <<"a", "b", "c">>
sKit == <<" ", "k", "i", "t">>

Row(id, name, category, price, attributes) ==
    [id |-> id, name |-> name, category |-> category, price |-> price,
     attributes |-> attributes]

CpuRows ==
    { Row("cpu-1", sAM5, "CPU", 19999,
          [socket |-> PyStr(sAM5), power_draw |-> PyInt(120), tdp |-> PyInt(105)]),
      Row("cpu-2", sLGA, "CPU", 15000,
          [socket |-> PyStr(sLGA), power_draw |-> PyStr(s300), tdp |-> PyStr(s300)]),
      Row("cpu-3", sam5, "CPU", 9900, [socket |-> PyStr(sam5)]),
      Row("cpu-4", sAM5 \o sKit, "CPU", 9000, [socket |-> PyStr(sAM5 \o <<" ">>)]) }

MotherboardRows ==
    { Row("mb-1", sATX, "Motherboard", 12000,
          [socket |-> PyStr(sAM5), memory_type |-> PyStr(sDDR5),
           memory_slots |-> PyInt(4), form_factor |-> PyStr(sATX),
           ram_type |-> PyStr(sDDR5)]),
      Row("mb-2", sMATX, "Motherboard", 8000,
          [socket |-> PyStr(sLGA), memory_type |-> PyStr(sDDR4),
           form_factor |-> PyStr(sMATX), ram_type |-> PyStr(sDDR4)]),
      Row("mb-3", sAbc, "Motherboard", 7000,
          [socket |-> PyStr(sAM5), memory_type |-> PyStr(sDDR5),
           memory_slots |-> PyStr(sTwo), power_draw |-> PyInt(3)]),
      Row("mb-4", sITX, "Motherboard", 9000,
          [socket |-> PyStr(sAM5), memory_type |-> PyStr(sDDR5),
           memory_slots |-> PyStr(s2), form_factor |-> PyStr(sITX),
           ram_type |-> PyStr(sDDR5)]) }

RamRows ==
    { Row("ram-1", sDDR5 \o sKit, "RAM", 6000,
          [memory_type |-> PyStr(sDDR5), sticks |-> PyInt(4)]),
      Row("ram-2", sDDR4 \o sKit, "RAM", 4000, [memory_type |-> PyStr(sDDR4)]),
      Row("ram-3", sKit, "RAM", 5000,
          [memory_type |-> PyStr(sDDR5), sticks |-> PyStr(sX4)]) }

GpuRows ==
    { Row("gpu-1", sBig, "GPU", 40000,
          [length_mm |-> PyInt(300), power_draw |-> PyInt(200), tdp |-> PyInt(200)]),
      Row("gpu-2", sLong, "GPU", 90000,
          [length_mm |-> PyStr(sLong), power_draw |-> PyStr(s600), tdp |-> PyInt(600)]),
      Row("gpu-3", sAbc, "GPU", 20000, [length_mm |-> PyStr(s320)]) }

StorageRows ==
    { Row("ssd-1", sAbc, "Storage", 5000, [power_draw |-> PyStr(s7W)]) }

PsuRows ==
    { Row("psu-1", sAbc, "PSU", 6000,
          [wattage |-> PyInt(400), power_draw |-> PyInt(50)]),
      Row("psu-2", sBig, "PSU", 5000, [wattage |-> PyStr(s399)]),
      Row("psu-3", sLong, "PSU", 6500, [wattage |-> PyInt(401), tdp |-> PyInt(10)]),
      Row("psu-4", sKit, "PSU", 3000, [wattage |-> PyStr(sAbc)]) }

CaseRows ==
    { Row("case-1", sATX, "Case", 7000,
          [supported_form_factors |-> PyStr(sATXmATX),
           max_gpu_length_mm |-> PyInt(310)]),
      Row("case-2", sITX, "Case", 5000,
          [supported_form_factors |-> PyStr(sITX),
           max_gpu_length_mm |-> PyStr(sBig)]),
      Row("case-3", sAbc, "Case", 3000, EmptyDict) }

CoolerRows ==
    { Row("cool-1", sAbc, "Cooler", 2500, [power_draw |-> PyInt(1)]) }

PartRows ==
    CpuRows \cup MotherboardRows \cup RamRows \cup GpuRows \cup StorageRows
        \cup PsuRows \cup CaseRows \cup CoolerRows

\* the Component objects the factory builds from the rows
Catalogue ==
    { create_component(r.id, r.name, r.category, r.price, r.attributes).component :
        r \in PartRows }

-----------------------------------------------------------------------------
(* The compatibility rule engine, pcbuilder/compat.py.  A part is the dict *)
(* of a component (the shape of to_dict and of a parts row) or None.       *)

Result(passed, message) == [passed |-> passed, message |-> message]

\* the fixed headroom of check_psu_wattage, 1.25, as the fraction 5/4
HeadroomNum == 5
HeadroomDen == 4

\* int(x) of a float quotient n/d with d > 0: truncation towards zero
TruncDiv(n, d) == IF n >= 0 THEN n \div d ELSE 0 - ((0 - n) \div d)

\* the sockets compared without regard to the case of the letters a and m
check_cpu_mobo_ignoring_case(cpu, mobo) ==
    IF cpu = None \/ mobo = None
    THEN Result(TRUE, Msg("CPU or motherboard missing - cannot check socket", <<>>))
    ELSE LET cpu_socket == Get(cpu.attributes, "socket", None)
             mobo_socket == Get(mobo.attributes, "socket", None)
             upper(x) ==
                 IF x.t # "str" THEN x
                 ELSE PyStr([k \in 1..Len(x.s) |->
                                IF x.s[k] = "a" THEN "A"
                                ELSE IF x.s[k] = "m" THEN "M" ELSE x.s[k]])
         IN  IF upper(cpu_socket) # upper(mobo_socket)
             THEN Result(FALSE,
                         Msg("CPU socket {} does not match motherboard socket {}",
                             <<cpu_socket, mobo_socket>>))
             ELSE Result(TRUE, Msg("CPU and motherboard sockets match", <<>>))

check_cpu_mobo(cpu, mobo) ==
    IF cpu = None \/ mobo = None
    THEN Result(TRUE, Msg("CPU or motherboard missing - cannot check socket", <<>>))
    ELSE LET cpu_socket == Get(cpu.attributes, "socket", None)
             mobo_socket == Get(mobo.attributes, "socket", None)
         IN  IF cpu_socket # mobo_socket
             THEN Result(FALSE,
                         Msg("CPU socket {} does not match motherboard socket {}",
                             <<cpu_socket, mobo_socket>>))
             ELSE Result(TRUE, Msg("CPU and motherboard sockets match", <<>>))

check_ram_mobo(ram, mobo) ==
    IF ram = None \/ mobo = None
    THEN Result(TRUE, Msg("RAM or motherboard missing - cannot check memory type", <<>>))
    ELSE LET ram_type == Get(ram.attributes, "memory_type", None)
             mobo_mem == Get(mobo.attributes, "memory_type", None)
             slots == ToInt(Get(mobo.attributes, "memory_slots", PyInt(0)))
             sticks == ToInt(Get(ram.attributes, "sticks", PyInt(1)))
         IN  IF ram_type # mobo_mem
             THEN Result(FALSE,
                         Msg("RAM type {} does not match motherboard supported {}",
                             <<ram_type, mobo_mem>>))
             ELSE IF slots.ok /\ sticks.ok /\ sticks.v > slots.v
             THEN Result(FALSE,
                         Msg("RAM sticks ({}) exceed motherboard slots ({})",
                             <<PyInt(sticks.v), PyInt(slots.v)>>))
             ELSE Result(TRUE, Msg("RAM appears compatible with motherboard", <<>>))

\* the form factor part of check_case_mobo_case_gpu: a list of 0 or 1 results
\* the form factor rule failing also for a case without a list
case_form_results_strict(mobo, case) ==
    IF mobo # None /\ case # None
    THEN LET mobo_form == Get(mobo.attributes, "form_factor", None)
             case_form == Get(case.attributes, "supported_form_factors", None)
         IN  IF ~Truthy(case_form)
                \/ ~InList(mobo_form, [k \in 1..Len(Split(case_form.s, ",")) |->
                                          PyStr(Split(case_form.s, ",")[k])])
             THEN <<Result(FALSE,
                           Msg("Motherboard form factor {} not supported by case ({})",
                               <<mobo_form, case_form>>))>>
             ELSE <<Result(TRUE, Msg("Motherboard fits case form factor", <<>>))>>
    ELSE <<>>

case_form_results(mobo, case) ==
    IF mobo # None /\ case # None
    THEN LET mobo_form == Get(mobo.attributes, "form_factor", None)
             case_form == Get(case.attributes, "supported_form_factors", None)
         IN  IF Truthy(case_form) /\ ~InList(mobo_form, [k \in 1..Len(Split(case_form.s, ",")) |->
                                                           PyStr(Split(case_form.s, ",")[k])])
             THEN <<Result(FALSE,
                           Msg("Motherboard form factor {} not supported by case ({})",
                               <<mobo_form, case_form>>))>>
             ELSE <<Result(TRUE, Msg("Motherboard fits case form factor", <<>>))>>
    ELSE <<>>

\* the GPU length part of check_case_mobo_case_gpu: a list of 0 or 1 results
case_gpu_results(case, gpu) ==
    IF gpu # None /\ case # None
    THEN LET gpu_len == ToInt(Get(gpu.attributes, "length_mm", PyInt(0)))
             max_len == ToInt(Get(case.attributes, "max_gpu_length_mm", PyInt(0)))
         IN  IF ~(gpu_len.ok /\ max_len.ok)
             THEN <<Result(TRUE, Msg("GPU / case length unknown - skipping check", <<>>))>>
             ELSE IF gpu_len.v > max_len.v
             THEN <<Result(FALSE,
                           Msg("GPU length {}mm exceeds case max {}mm",
                               <<PyInt(gpu_len.v), PyInt(max_len.v)>>))>>
             ELSE <<Result(TRUE, Msg("GPU fits in case", <<>>))>>
    ELSE <<>>

check_case_mobo_case_gpu(mobo, case, gpu) ==
    case_form_results(mobo, case) \o case_gpu_results(case, gpu)

\* the power_draw one part adds to total_draw in check_psu_wattage
draw_of(k, p) ==
    IF p = None \/ k = "PSU" THEN 0
    ELSE LET d == ToInt(Get(p.attributes, "power_draw", PyInt(0)))
         IN  IF d.ok THEN d.v ELSE 0

\* total_draw of check_psu_wattage: the loop over parts.items()
RECURSIVE total_draw_upto(_, _)
total_draw_upto(parts, n) ==
    IF n = 0 THEN 0
    ELSE total_draw_upto(parts, n - 1)
            + draw_of(CategoryOrder[n], parts[CategoryOrder[n]])

total_draw(parts) == total_draw_upto(parts, Len(CategoryOrder))

\* the requirement rounded up instead of truncated
required_wattage_ceil(draw) ==
    (draw * HeadroomNum + HeadroomDen - 1) \div HeadroomDen

\* required = int(total_draw * headroom)
required_wattage(draw) == TruncDiv(draw * HeadroomNum, HeadroomDen)

\* the rule passing when there is no PSU, as the pairwise rules do
check_psu_wattage_lenient(parts) ==
    LET psu == parts["PSU"]
    IN  IF psu = None THEN Result(TRUE, Msg("No PSU selected", <<>>))
        ELSE LET psu_w == ToInt(Get(psu.attributes, "wattage", PyInt(0)))
                 draw == total_draw(parts)
                 required == required_wattage(draw)
             IN  IF ~psu_w.ok THEN Result(FALSE, Msg("PSU wattage unknown", <<>>))
                 ELSE IF psu_w.v < required
                 THEN Result(FALSE,
                             Msg("PSU wattage {}W insufficient for estimated draw {}W (required with headroom: {}W)",
                                 <<PyInt(psu_w.v), PyInt(draw), PyInt(required)>>))
                 ELSE Result(TRUE, Msg("PSU wattage appears sufficient", <<>>))

check_psu_wattage(parts) ==
    LET psu == parts["PSU"]
    IN  IF psu = None THEN Result(FALSE, Msg("No PSU selected", <<>>))
        ELSE LET psu_w == ToInt(Get(psu.attributes, "wattage", PyInt(0)))
                 draw == total_draw(parts)
                 required == required_wattage(draw)
             IN  IF ~psu_w.ok THEN Result(FALSE, Msg("PSU wattage unknown", <<>>))
                 ELSE IF psu_w.v < required
                 THEN Result(FALSE,
                             Msg("PSU wattage {}W insufficient for estimated draw {}W (required with headroom: {}W)",
                                 <<PyInt(psu_w.v), PyInt(draw), PyInt(required)>>))
                 ELSE Result(TRUE, Msg("PSU wattage appears sufficient", <<>>))

Entry(rule_id, res) ==
    [rule_id |-> rule_id, passed |-> res.passed, message |-> res.message]

\* f"case_check_{idx}"
case_check_id(idx) == IF idx = 0 THEN "case_check_0" ELSE "case_check_1"

\* a results list that is kept between the calls and grows with each
run_full_check_accumulating(parts) ==
    LET case_results ==
            check_case_mobo_case_gpu(parts["Motherboard"], parts["Case"], parts["GPU"])
    IN  report
        \o <<Entry("cpu_socket", check_cpu_mobo(parts["CPU"], parts["Motherboard"])),
             Entry("ram_mobo", check_ram_mobo(parts["RAM"], parts["Motherboard"]))>>
        \o [k \in 1..Len(case_results) |-> Entry(case_check_id(k - 1), case_results[k])]
        \o <<Entry("psu_wattage", check_psu_wattage(parts))>>

\* compat.run_full_check
run_full_check(parts) ==
    LET case_results ==
            check_case_mobo_case_gpu(parts["Motherboard"], parts["Case"], parts["GPU"])
    IN  <<Entry("cpu_socket", check_cpu_mobo(parts["CPU"], parts["Motherboard"])),
          Entry("ram_mobo", check_ram_mobo(parts["RAM"], parts["Motherboard"]))>>
        \o [k \in 1..Len(case_results) |-> Entry(case_check_id(k - 1), case_results[k])]
        \o <<Entry("psu_wattage", check_psu_wattage(parts))>>

-----------------------------------------------------------------------------
(* The Build aggregate, pcbuilder/models.py *)

\* Build.__init__: every slot empty
EmptySlots == [cat \in Categories |-> None]

\* Build.get_all_components
get_all_components(comps) == comps

\* the parts dict DatabaseManager.save_build serialises a build into, which
\* is also the shape of the selected parts the views hand to run_full_check
PartsDict(comps) ==
    [cat \in DOMAIN get_all_components(comps) |->
        IF comps[cat] # None THEN to_dict(comps[cat]) ELSE None]

\* isinstance(x, (int, float))
IsNumber(x) == x.t = "int"

\* CPU.is_compatible_with
cpu_is_compatible_with(self, other) ==
    IF other.cls = "Motherboard"
    THEN LET cpu_socket == get_attribute(self, "socket", PyStr(<<>>))
             mb_socket == get_attribute(other, "socket", PyStr(<<>>))
         IN  IF cpu_socket = mb_socket
             THEN Result(TRUE, Msg("Compatible sockets", <<>>))
             ELSE Result(FALSE,
                         Msg("Incompatible sockets: CPU {} vs Motherboard {}",
                             <<cpu_socket, mb_socket>>))
    ELSE Result(TRUE, Msg("No compatibility constraints", <<>>))

\* Motherboard.is_compatible_with
motherboard_is_compatible_with(self, other) ==
    IF other.cls = "CPU" THEN cpu_is_compatible_with(other, self)
    ELSE IF other.cls = "RAM"
    THEN LET mb_ram_type == get_attribute(self, "ram_type", PyStr(<<>>))
         IN  IF Contains(other.name, sDDR5) /\ Contains(mb_ram_type.s, sDDR5)
             THEN Result(TRUE, Msg("Compatible RAM type (DDR5)", <<>>))
             ELSE IF Contains(other.name, sDDR4) /\ Contains(mb_ram_type.s, sDDR4)
             THEN Result(TRUE, Msg("Compatible RAM type (DDR4)", <<>>))
             ELSE Result(FALSE, Msg("Incompatible RAM types", <<>>))
    ELSE Result(TRUE, Msg("No compatibility constraints", <<>>))

\* RAM.is_compatible_with
ram_is_compatible_with(self, other) ==
    IF other.cls = "Motherboard" THEN motherboard_is_compatible_with(other, self)
    ELSE Result(TRUE, Msg("No compatibility constraints", <<>>))

\* GPU.is_compatible_with
gpu_is_compatible_with(self, other) ==
    IF other.cls = "PSU"
    THEN Result(TRUE, Msg("GPU TDP: {}W", <<get_attribute(self, "tdp", PyInt(0))>>))
    ELSE Result(TRUE, Msg("No compatibility constraints", <<>>))

\* Case.is_compatible_with
case_is_compatible_with(self, other) ==
    IF other.cls = "Motherboard"
    THEN LET case_ff == get_attribute(self, "form_factor", PyStr(<<>>))
             mb_ff == get_attribute(other, "form_factor", PyStr(<<>>))
         IN  IF Contains(case_ff.s, mb_ff.s) \/ mb_ff = case_ff
             THEN Result(TRUE, Msg("Compatible form factors", <<>>))
             ELSE Result(FALSE,
                         Msg("Incompatible: Case supports {}, Motherboard is {}",
                             <<case_ff, mb_ff>>))
    ELSE Result(TRUE, Msg("No compatibility constraints", <<>>))

\* the polymorphic call comp1.is_compatible_with(comp2)
is_compatible_with(self, other) ==
    CASE self.cls = "CPU" -> cpu_is_compatible_with(self, other)
      [] self.cls = "Motherboard" -> motherboard_is_compatible_with(self, other)
      [] self.cls = "RAM" -> ram_is_compatible_with(self, other)
      [] self.cls = "GPU" -> gpu_is_compatible_with(self, other)
      [] self.cls = "Storage" ->
            Result(TRUE, Msg("Storage is universally compatible", <<>>))
      [] self.cls = "PSU" ->
            Result(TRUE, Msg("PSU compatibility checked at build level", <<>>))
      [] self.cls = "Case" -> case_is_compatible_with(self, other)
      [] OTHER ->
            Result(TRUE, Msg("Cooler compatibility depends on socket and case clearance", <<>>))

\* Build.calculate_total_wattage: the 'tdp' of every present component
RECURSIVE total_wattage_upto(_, _)
total_wattage_upto(comps, n) ==
    IF n = 0 THEN 0
    ELSE LET comp == comps[CategoryOrder[n]]
             tdp == IF comp = None THEN None ELSE get_attribute(comp, "tdp", PyInt(0))
         IN  total_wattage_upto(comps, n - 1) + (IF IsNumber(tdp) THEN tdp.i ELSE 0)

calculate_total_wattage(comps) == total_wattage_upto(comps, Len(CategoryOrder))

\* the essential list without the PSU
is_complete_without_psu(comps) ==
    \A cat \in {"CPU", "Motherboard", "RAM", "Storage", "Case"} :
        comps[cat] # None

\* Build.is_complete
is_complete(comps) ==
    \A cat \in {"CPU", "Motherboard", "RAM", "Storage", "PSU", "Case"} :
        comps[cat] # None

\* the index pairs (i, j), i < j, in the order of the two nested loops
RECURSIVE PairsFrom(_, _, _)
PairsFrom(i, j, n) ==
    IF i >= n THEN <<>>
    ELSE IF j > n THEN PairsFrom(i + 1, i + 2, n)
    ELSE <<<<i, j>>>> \o PairsFrom(i, j + 1, n)

\* the margin of Build.get_compatibility_issues, 1.2, as the fraction 6/5
MarginNum == 6
MarginDen == 5

\* Build.get_compatibility_issues.  The comparison with total * 1.2 is made
\* in exact arithmetic.
get_compatibility_issues(comps) ==
    LET present == SelectSeq(CategoryOrder, LAMBDA cat : comps[cat] # None)
        pairs == PairsFrom(1, 2, Len(present))
        Bad(p) == ~is_compatible_with(comps[present[p[1]]], comps[present[p[2]]]).passed
        failing == SelectSeq(pairs, Bad)
        pairIssues ==
            [k \in 1..Len(failing) |->
                [first |-> present[failing[k][1]], second |-> present[failing[k][2]],
                 message |-> is_compatible_with(comps[present[failing[k][1]]],
                                                comps[present[failing[k][2]]]).message]]
        psu == comps["PSU"]
        psu_wattage == IF psu = None THEN None ELSE get_attribute(psu, "wattage", PyInt(0))
        total == calculate_total_wattage(comps)
    IN  pairIssues \o
        (IF psu # None /\ IsNumber(psu_wattage)
               /\ psu_wattage.i * MarginDen < total * MarginNum
         THEN <<[first |-> "PSU", second |-> "PSU",
                 message |-> Msg("PSU may be underpowered: {}W PSU for {}W system",
                                 <<psu_wattage, PyInt(total)>>)]>>
         ELSE <<>>)

\* the component stored under its id instead of its category
add_component_by_id(comps, component) ==
    (component.id :> component) @@ comps

\* Build.add_component
add_component(comps, component) ==
    (get_category(component) :> component) @@ comps

\* a removal that empties every slot
remove_component_all(comps, category) ==
    IF category \in DOMAIN comps THEN [cat \in DOMAIN comps |-> None] ELSE comps

\* Build.remove_component: a label that is no key changes nothing
remove_component(comps, category) ==
    IF category \in DOMAIN comps THEN [comps EXCEPT ![category] = None] ELSE comps

\* the price stored before it is tested
set_price_then_check(c, value) ==
    [ok |-> value >= 0, component |-> [c EXCEPT !.price = value]]

\* the setter of Component.price; ok = FALSE is the raised ValueError
set_price(c, value) ==
    IF value < 0 THEN [ok |-> FALSE, component |-> c]
    ELSE [ok |-> TRUE, component |-> [c EXCEPT !.price = value]]

\* the least length of a name the setter of Build.name accepts
MinNameLen == 3

\* the setter of Build.name on the scalar fields b of a Build; ok = FALSE
\* is the raised ValueError
set_name(b, value) ==
    IF value = <<>> \/ Len(value) < MinNameLen THEN [ok |-> FALSE, build |-> b]
    ELSE [ok |-> TRUE, build |-> [b EXCEPT !.name = value]]

-----------------------------------------------------------------------------
(* Build persistence: pcbuilder/db.py and pcbuilder/database_manager.py.   *)
(* Both modules open the same file pcbuilder.db and create the builds      *)
(* table only if it does not exist, so its schema is that of whichever     *)
(* module ran first: db.init_db declares share_key TEXT, and               *)
(* DatabaseManager.__initialize_schema declares share_key TEXT UNIQUE.     *)
(* datetime.now() returns the instant of the variable clock.               *)

\* how many distinct share keys the generator can return
NumKeys == 2

\* how many rows are ever inserted into the builds table
MaxBuilds == 3

\* the last instant of the clock; the first is 0
MaxTime == 1

Callers == {1, 2}

Users == {1, 2}

\* the length of a share key: range(8)
ShareKeyLen == 8

\* generate_share_key: 8 characters out of A-Z and 0-9; the model draws
\* from the keys AAAAAAA1, AAAAAAA2, ...
KeyOf(n) == [k \in 1..ShareKeyLen |-> IF k < ShareKeyLen THEN "A" ELSE Digits[n + 1]]

ShareKeys == {KeyOf(n) : n \in 1..NumKeys}

\* The values of a JSON text: json.dumps writes None as null, an int as a
\* number, a str as a string and a dict as an object with its keys
JNull == [j |-> "null"]
JNumber(n) == [j |-> "number", n |-> n]
JString(s) == [j |-> "string", s |-> s]
JObject(members) == [j |-> "object", members |-> members]

\* the JSON value of an attribute value: None, int or str
json_value(x) ==
    IF x.t = "none" THEN JNull
    ELSE IF x.t = "int" THEN JNumber(x.i)
    ELSE JString(x.s)

\* the JSON object of the dict of a component, the shape of to_dict
json_component(d) ==
    JObject([id |-> JString(d.id), name |-> JString(d.name),
             category |-> JString(d.category), price |-> JNumber(d.price),
             attributes |->
                 JObject([k \in DOMAIN d.attributes |-> json_value(d.attributes[k])])])

\* json.dumps of a parts dict: category -> None or the dict of a component
json_dumps(d) ==
    JObject([k \in DOMAIN d |-> IF d[k] = None THEN JNull ELSE json_component(d[k])])

\* what json.loads makes of a null, a number or a string
python_value(v) ==
    IF v.j = "null" THEN None
    ELSE IF v.j = "number" THEN PyInt(v.n)
    ELSE PyStr(v.s)

\* what json.loads makes of the object of a component
python_component(v) ==
    [id |-> v.members.id.s, name |-> v.members.name.s,
     category |-> v.members.category.s, price |-> v.members.price.n,
     attributes |->
         [k \in DOMAIN v.members.attributes.members |->
              python_value(v.members.attributes.members[k])]]

\* json.loads of the parts_json of a row
json_loads(v) ==
    [k \in DOMAIN v.members |->
         IF v.members[k].j = "null" THEN None ELSE python_component(v.members[k])]

sPc == <<"p", "c">>
sImported == <<" ", "(", "i", "m", "p", "o", "r", "t", "e", "d", ")">>

\* the copy keeping the name of the original
imported_name_same(name) == name

\* the name import_build and import_build_from_share_key give the copy
imported_name(name) == name \o sImported

\* Build.__init__ with the scalar fields of a transient build; now is the
\* instant datetime.now() returns
NewBuild(build_id, name, user_id, now) ==
    [build_id |-> build_id, name |-> name, user_id |-> user_id, share_key |-> None,
     created_at |-> now]

\* datetime.isoformat(): the text of an instant
isoformat(now) == [isoformat |-> now]

\* db.init_db: CREATE TABLE IF NOT EXISTS builds (... share_key TEXT ...)
init_db_unique == FALSE

\* DatabaseManager.__initialize_schema: ... share_key TEXT UNIQUE ...
initialize_schema_unique == TRUE

BuildRow(id, user_id, name, parts, created_at, share_key) ==
    [id |-> id, user_id |-> user_id, name |-> name,
     parts_json |-> json_dumps(parts), created_at |-> created_at,
     share_key |-> PyStr(share_key)]

\* the pre-check left out: every generated key is taken to be free
share_key_exists_unchecked(rows, share_key) == FALSE

\* SELECT id FROM builds WHERE share_key = ?  ...  fetchone() is not None
share_key_exists(rows, share_key) ==
    \E r \in rows : r.share_key = PyStr(share_key)

\* SELECT ... FROM builds WHERE share_key = ?: the rows fetchone() may return
rows_by_share_key(rows, share_key) ==
    {r \in rows : r.share_key = PyStr(share_key)}

\* whether the INSERT of a row with this share_key raises IntegrityError
insert_rejected(unique, rows, share_key) ==
    unique /\ share_key_exists(rows, share_key)

\* the DELETE without the test of the owner
rows_to_delete_any_owner(rows, build_id, user_id) ==
    {r \in rows : r.id = build_id}

\* DELETE FROM builds WHERE id = ? AND user_id = ?: the rows deleted
rows_to_delete(rows, build_id, user_id) ==
    {r \in rows : r.id = build_id /\ r.user_id = user_id}

\* DatabaseManager.__build_from_row: the slots of the Build made from a row,
\* every component rebuilt by the factory and added; ok = FALSE when the
\* factory raised and the method returned None
RECURSIVE components_from_upto(_, _)
components_from_upto(parts_dict, n) ==
    IF n = 0 THEN EmptySlots
    ELSE LET sofar == components_from_upto(parts_dict, n - 1)
             cat == CategoryOrder[n]
             comp_data == Get(parts_dict, cat, None)
         IN  IF comp_data = None THEN sofar
             ELSE add_component(sofar,
                      create_component(comp_data.id, comp_data.name, comp_data.category,
                                       comp_data.price, comp_data.attributes).component)

build_from_row(r, now) ==
    LET parts_dict == json_loads(r.parts_json)
        ok == \A cat \in DOMAIN parts_dict :
                 parts_dict[cat] = None \/ parts_dict[cat].category \in ComponentMap
    IN  [ok |-> ok,
         build |-> [NewBuild(PyInt(r.id), r.name, r.user_id, now)
                        EXCEPT !.share_key = r.share_key],
         components |-> IF ok THEN components_from_upto(parts_dict, Len(CategoryOrder))
                        ELSE EmptySlots]

\* the state of a caller: pc is the position in save_build ("idle": not in
\* it), api tells whose save_build runs ("db": db.save_build; "db_import":
\* the same, called by import_build_from_share_key; "dm":
\* DatabaseManager.save_build on the caller's Build; "dm_import": the same
\* on the new_build of import_build), then its arguments and local
\* share_key, and for an import the share key the copy is made from
IdleCall(result) ==
    [pc |-> "idle", api |-> "none", user_id |-> 0, name |-> <<>>,
     parts |-> EmptyDict, share_key |-> <<>>, source |-> <<>>, result |-> result]

\* what a call returned: the tuple (build_id, share_key) of a save or an
\* import, None, the raised IntegrityError, the bool of a delete, or the
\* Build objects of a load, each with its scalar fields and its slots
NoResult == [kind |-> "none", build_id |-> 0, share_key |-> <<>>, loaded |-> <<>>]
Saved(build_id, share_key) ==
    [kind |-> "saved", build_id |-> build_id, share_key |-> share_key, loaded |-> <<>>]
ReturnedNone == [kind |-> "None", build_id |-> 0, share_key |-> <<>>, loaded |-> <<>>]
Raised == [kind |-> "IntegrityError", build_id |-> 0, share_key |-> <<>>, loaded |-> <<>>]
Deleted(flag) ==
    [kind |-> IF flag THEN "True" ELSE "False", build_id |-> 0, share_key |-> <<>>,
     loaded |-> <<>>]
Loaded(kind, list) == [kind |-> kind, build_id |-> 0, share_key |-> <<>>, loaded |-> list]

\* the start of save_build: connect and generate the first share key
EnterSaveBuild(p, api, user_id, name, parts, source) ==
    /\ nextId <= MaxBuilds
    /\ \E k \in ShareKeys :
          call' = [call EXCEPT ![p] =
                      [pc |-> "check", api |-> api, user_id |-> user_id, name |-> name,
                       parts |-> parts, share_key |-> k, source |-> source,
                       result |-> NoResult]]

\* db.save_build(user_id, build_name, parts) is called
DbSaveBuild(p, user_id, name, parts) ==
    /\ call[p].pc = "idle"
    /\ EnterSaveBuild(p, "db", user_id, name, parts, <<>>)
    /\ UNCHANGED <<buildVars, build, schemaUnique, builds, nextId, clock, userVars, manager>>

\* db.import_build_from_share_key(user_id, share_key)
DbImportBuild(p, user_id, share_key) ==
    /\ call[p].pc = "idle"
    /\ IF rows_by_share_key(builds, share_key) = {}
       THEN call' = [call EXCEPT ![p] = IdleCall(ReturnedNone)]
       ELSE \E r \in rows_by_share_key(builds, share_key) :
                EnterSaveBuild(p, "db_import", user_id, imported_name(r.name),
                               json_loads(r.parts_json), share_key)
    /\ UNCHANGED <<buildVars, build, schemaUnique, builds, nextId, clock, userVars, manager>>

\* DatabaseManager.save_build(build) is called with the caller's Build
DmSaveBuild(p) ==
    /\ call[p].pc = "idle"
    /\ EnterSaveBuild(p, "dm", build.user_id, build.name,
                      PartsDict(get_all_components(components)), <<>>)
    /\ UNCHANGED <<buildVars, build, schemaUnique, builds, nextId, clock, userVars, manager>>

\* DatabaseManager.import_build(user_id, share_key)
DmImportBuild(p, user_id, share_key) ==
    /\ call[p].pc = "idle"
    /\ IF rows_by_share_key(builds, share_key) = {}
       THEN call' = [call EXCEPT ![p] = IdleCall(ReturnedNone)]
       ELSE \E r \in rows_by_share_key(builds, share_key) :
                LET loaded == build_from_row(r, clock)
                IN  IF ~loaded.ok
                    THEN call' = [call EXCEPT ![p] = IdleCall(ReturnedNone)]
                    ELSE EnterSaveBuild(p, "dm_import", user_id,
                                        imported_name(loaded.build.name),
                                        PartsDict(loaded.components), share_key)
    /\ UNCHANGED <<buildVars, build, schemaUnique, builds, nextId, clock, userVars, manager>>

\* one pass of the loop `while True` of save_build: leave it when no row has
\* the key, else generate another key; DatabaseManager.save_build then sets
\* build.share_key
SelectShareKey(p) ==
    /\ call[p].pc = "check"
    /\ IF share_key_exists(builds, call[p].share_key)
       THEN /\ \E k \in ShareKeys : call' = [call EXCEPT ![p].share_key = k]
            /\ UNCHANGED build
       ELSE /\ call' = [call EXCEPT ![p].pc = "insert"]
            /\ build' = IF call[p].api = "dm"
                        THEN [build EXCEPT !.share_key = PyStr(call[p].share_key)]
                        ELSE build
    /\ UNCHANGED <<buildVars, schemaUnique, builds, nextId, clock, userVars, manager>>

\* the INSERT of save_build, the commit and the return; an IntegrityError
\* of the INSERT is not caught in either save_build
InsertBuild(p) ==
    /\ call[p].pc = "insert"
    /\ IF insert_rejected(schemaUnique, builds, call[p].share_key)
       THEN /\ call' = [call EXCEPT ![p] = IdleCall(Raised)]
            /\ UNCHANGED <<build, builds, nextId, userVars, manager>>
       ELSE /\ builds' = builds \cup
                    {BuildRow(nextId, call[p].user_id, call[p].name, call[p].parts,
                              isoformat(clock), call[p].share_key)}
            /\ nextId' = nextId + 1
            /\ build' = IF call[p].api = "dm"
                        THEN [build EXCEPT !.build_id = PyInt(nextId)]
                        ELSE build
            /\ call' = [call EXCEPT ![p] = IdleCall(Saved(nextId, call[p].share_key))]
    /\ UNCHANGED <<buildVars, schemaUnique, clock, userVars, manager>>

\* DatabaseManager.delete_build(build_id, user_id)
DmDeleteBuild(p, build_id, user_id) ==
    /\ call[p].pc = "idle"
    /\ builds' = builds \ rows_to_delete(builds, build_id, user_id)
    /\ call' = [call EXCEPT ![p] =
                   IdleCall(Deleted(rows_to_delete(builds, build_id, user_id) # {}))]
    /\ UNCHANGED <<buildVars, build, schemaUnique, nextId, clock, userVars, manager>>

\* what load_build and load_build_by_share_key return for the fetched row
build_or_none(r, now) ==
    LET b == build_from_row(r, now)
    IN  IF b.ok THEN Loaded("Build", <<[build |-> b.build, components |-> b.components]>>)
        ELSE ReturnedNone

\* DatabaseManager.load_build(build_id)
DmLoadBuild(p, build_id) ==
    /\ call[p].pc = "idle"
    /\ IF \A r \in builds : r.id # build_id
       THEN call' = [call EXCEPT ![p] = IdleCall(ReturnedNone)]
       ELSE \E r \in {x \in builds : x.id = build_id} :
                call' = [call EXCEPT ![p] = IdleCall(build_or_none(r, clock))]
    /\ UNCHANGED <<buildVars, build, schemaUnique, builds, nextId, clock, userVars, manager>>

\* DatabaseManager.load_build_by_share_key(share_key)
DmLoadBuildByShareKey(p, share_key) ==
    /\ call[p].pc = "idle"
    /\ IF rows_by_share_key(builds, share_key) = {}
       THEN call' = [call EXCEPT ![p] = IdleCall(ReturnedNone)]
       ELSE \E r \in rows_by_share_key(builds, share_key) :
                call' = [call EXCEPT ![p] = IdleCall(build_or_none(r, clock))]
    /\ UNCHANGED <<buildVars, build, schemaUnique, builds, nextId, clock, userVars, manager>>

\* the list load_user_builds makes of the rows of the user with an id up to
\* n, in the order of the ids; a row __build_from_row fails on is left out
RECURSIVE user_builds_upto(_, _, _, _)
user_builds_upto(rows, user_id, now, n) ==
    IF n = 0 THEN <<>>
    ELSE LET sofar == user_builds_upto(rows, user_id, now, n - 1)
             here == {r \in rows : r.id = n /\ r.user_id = user_id}
         IN  IF here = {} THEN sofar
             ELSE sofar \o build_or_none(CHOOSE r \in here : TRUE, now).loaded

\* DatabaseManager.load_user_builds(user_id)
DmLoadUserBuilds(p, user_id) ==
    /\ call[p].pc = "idle"
    /\ call' = [call EXCEPT ![p] =
                   IdleCall(Loaded("list", user_builds_upto(builds, user_id, clock,
                                                            nextId - 1)))]
    /\ UNCHANGED <<buildVars, build, schemaUnique, builds, nextId, clock, userVars, manager>>

\* time passes
Tick ==
    /\ clock < MaxTime
    /\ clock' = clock + 1
    /\ UNCHANGED <<buildVars, build, schemaUnique, builds, nextId, call, userVars, manager>>

-----------------------------------------------------------------------------
\* the dict db.load_build_by_id and db.load_build_by_share_key make of the
\* fetched row
build_dict(r) ==
    [id |-> r.id, user_id |-> r.user_id, name |-> r.name,
     parts |-> json_loads(r.parts_json), created_at |-> r.created_at,
     share_key |-> r.share_key]

\* every row is taken to match the id asked for
rows_by_id_any(rows, build_id) == rows

\* SELECT ... FROM builds WHERE id = ?: the rows fetchone() may return
rows_by_id(rows, build_id) == {r \in rows : r.id = build_id}

\* db.load_build_by_id(build_id)
DbLoadBuildById(p, build_id) ==
    /\ call[p].pc = "idle"
    /\ IF rows_by_id(builds, build_id) = {}
       THEN call' = [call EXCEPT ![p] = IdleCall(ReturnedNone)]
       ELSE \E r \in rows_by_id(builds, build_id) :
                call' = [call EXCEPT ![p] = IdleCall(Loaded("dict", <<build_dict(r)>>))]
    /\ UNCHANGED <<buildVars, build, schemaUnique, builds, nextId, clock, userVars, manager>>

\* db.load_build_by_share_key(share_key)
DbLoadBuildByShareKey(p, share_key) ==
    /\ call[p].pc = "idle"
    /\ IF rows_by_share_key(builds, share_key) = {}
       THEN call' = [call EXCEPT ![p] = IdleCall(ReturnedNone)]
       ELSE \E r \in rows_by_share_key(builds, share_key) :
                call' = [call EXCEPT ![p] = IdleCall(Loaded("dict", <<build_dict(r)>>))]
    /\ UNCHANGED <<buildVars, build, schemaUnique, builds, nextId, clock, userVars, manager>>

(* Accounts *)

\* hashlib.sha256(password.encode("utf-8")).hexdigest(): the digest of the
\* text, different texts taken to have different digests
hash_password(password) == [sha256 |-> password]

\* role: int = 1
DefaultRole == 1

UserRow(id, username, password, role, now) ==
    [id |-> id, username |-> username, password_hash |-> hash_password(password),
     role |-> role, created_at |-> isoformat(now)]

\* an INSERT that the UNIQUE constraint on username does not stop
create_user_no_unique(rows, next, username, password, now) ==
    [user_id |-> PyInt(next),
     rows |-> rows \cup {UserRow(next, username, password, DefaultRole, now)},
     next |-> next + 1]

\* db.create_user(username, password) on the users table rows with next
\* AUTOINCREMENT id next: the id of the new row, the table and the next id
\* after it; username TEXT UNIQUE makes the INSERT raise IntegrityError,
\* which is caught
create_user(rows, next, username, password, now) ==
    IF \E r \in rows : r.username = username
    THEN [user_id |-> None, rows |-> rows, next |-> next]
    ELSE [user_id |-> PyInt(next),
          rows |-> rows \cup {UserRow(next, username, password, DefaultRole, now)},
          next |-> next + 1]

\* the least lengths accounts.register accepts
MinUsernameLen == 3

MinPasswordLen == 6

\* accounts.register(username, password): the tuple returned, the users
\* table and the next id after it
register(rows, next, username, password, now) ==
    IF username = <<>> \/ Len(username) < MinUsernameLen
    THEN [ok |-> FALSE, message |-> Msg("Username must be at least 3 characters", <<>>),
          rows |-> rows, next |-> next]
    ELSE IF password = <<>> \/ Len(password) < MinPasswordLen
    THEN [ok |-> FALSE, message |-> Msg("Password must be at least 6 characters", <<>>),
          rows |-> rows, next |-> next]
    ELSE LET created == create_user(rows, next, username, password, now)
         IN  IF created.user_id = None
             THEN [ok |-> FALSE, message |-> Msg("Username already exists", <<>>),
                   rows |-> created.rows, next |-> created.next]
             ELSE [ok |-> TRUE,
                   message |-> Msg("Account created with ID {}", <<created.user_id>>),
                   rows |-> created.rows, next |-> created.next]

\* success, msg = register(username, password)
Register(username, password) ==
    LET r == register(userRows, nextUserId, username, password, clock)
    IN  /\ userRows' = r.rows
        /\ nextUserId' = r.next
        /\ returned' = [ok |-> PyBool(r.ok), message |-> r.message]
        /\ lastOp' = "register"
        /\ UNCHANGED <<components, report, issues, dbVars, manager>>

-----------------------------------------------------------------------------
(* The undo/redo history, pcbuilder/undo_redo.py *)

\* the greatest max_history a manager is made with
MaxHistory == 3

\* max_history: int = 20, for the managers no history is kept with
DefaultHistory == 20

\* a dict handed to save_state; deepcopy of it is the same value
PyDict(d) == [t |-> "dict", d |-> d]

\* UndoRedoManager.__init__(max_history)
NewManager(max_history) ==
    [undo_stack |-> <<>>, redo_stack |-> <<>>, max_history |-> max_history,
     current_state |-> None]

\* list.pop(0) and list.pop()
PopFirst(list) == SubSeq(list, 2, Len(list))

PopLast(list) == SubSeq(list, 1, Len(list) - 1)

\* a push that never drops the oldest state
save_state_unlimited(m, state) ==
    [m EXCEPT !.undo_stack = IF m.current_state # None
                             THEN Append(m.undo_stack, m.current_state)
                             ELSE m.undo_stack,
              !.current_state = state,
              !.redo_stack = <<>>]

\* UndoRedoManager.save_state(state): the manager after the call
save_state(m, state) ==
    LET pushed == IF m.current_state # None
                  THEN Append(m.undo_stack, m.current_state)
                  ELSE m.undo_stack
    IN  [m EXCEPT !.undo_stack = IF m.current_state # None /\ Len(pushed) > m.max_history
                                 THEN PopFirst(pushed)
                                 ELSE pushed,
                  !.current_state = state,
                  !.redo_stack = <<>>]

\* UndoRedoManager.undo(): the value returned and the manager after the call
undo(m) ==
    IF m.undo_stack = <<>> THEN [returned |-> None, manager |-> m]
    ELSE [returned |-> m.undo_stack[Len(m.undo_stack)],
          manager |->
              [m EXCEPT !.redo_stack = IF m.current_state # None
                                       THEN Append(m.redo_stack, m.current_state)
                                       ELSE m.redo_stack,
                        !.undo_stack = PopLast(m.undo_stack),
                        !.current_state = m.undo_stack[Len(m.undo_stack)]]]

\* UndoRedoManager.redo(): the value returned and the manager after the call
redo(m) ==
    IF m.redo_stack = <<>> THEN [returned |-> None, manager |-> m]
    ELSE [returned |-> m.redo_stack[Len(m.redo_stack)],
          manager |->
              [m EXCEPT !.undo_stack = IF m.current_state # None
                                       THEN Append(m.undo_stack, m.current_state)
                                       ELSE m.undo_stack,
                        !.redo_stack = PopLast(m.redo_stack),
                        !.current_state = m.redo_stack[Len(m.redo_stack)]]]

\* UndoRedoManager.clear(): the manager after the call
clear(m) ==
    [m EXCEPT !.undo_stack = <<>>, !.redo_stack = <<>>, !.current_state = None]

SaveState(state) ==
    /\ manager' = save_state(manager, state)
    /\ lastOp' = "save_state"
    /\ returned' = None
    /\ UNCHANGED <<components, report, issues, dbVars, userVars>>

Undo ==
    /\ manager' = undo(manager).manager
    /\ lastOp' = "undo"
    /\ returned' = undo(manager).returned
    /\ UNCHANGED <<components, report, issues, dbVars, userVars>>

Redo ==
    /\ manager' = redo(manager).manager
    /\ lastOp' = "redo"
    /\ returned' = redo(manager).returned
    /\ UNCHANGED <<components, report, issues, dbVars, userVars>>

Clear ==
    /\ manager' = clear(manager)
    /\ lastOp' = "clear"
    /\ returned' = None
    /\ UNCHANGED <<components, report, issues, dbVars, userVars>>

-----------------------------------------------------------------------------
(* Operations on one Build *)

\* the labels remove_component is called with: the 8 tags and one that is none
Labels == Categories \cup {"Monitor"}

\* what a slot can hold: nothing, or a catalogue component of its category
SlotChoices(cat) == {None} \cup {c \in Catalogue : get_category(c) = cat}

\* every build the add/remove operations can produce from the catalogue
AllBuilds ==
    { [cat \in Categories |->
          CASE cat = "CPU" -> cpu [] cat = "Motherboard" -> mobo [] cat = "RAM" -> ram
            [] cat = "GPU" -> gpu [] cat = "Storage" -> ssd [] cat = "PSU" -> psu
            [] cat = "Case" -> case [] OTHER -> cooler] :
        cpu \in SlotChoices("CPU"), mobo \in SlotChoices("Motherboard"),
        ram \in SlotChoices("RAM"), gpu \in SlotChoices("GPU"),
        ssd \in SlotChoices("Storage"), psu \in SlotChoices("PSU"),
        case \in SlotChoices("Case"), cooler \in SlotChoices("Cooler") }

AddComponent(c) ==
    /\ components' = add_component(components, c)
    /\ lastOp' = IF components[get_category(c)] = None THEN "add_component" ELSE "replace"
    /\ returned' = None
    /\ UNCHANGED <<report, issues, dbVars, userVars, manager>>

RemoveComponent(label) ==
    /\ components' = remove_component(components, label)
    /\ lastOp' = IF label \notin Categories THEN "remove_unknown"
                 ELSE IF components[label] = None THEN "remove_empty"
                 ELSE "remove_component"
    /\ returned' = None
    /\ UNCHANGED <<report, issues, dbVars, userVars, manager>>

\* Build.is_complete() is called
IsComplete ==
    /\ returned' = PyBool(is_complete(components))
    /\ lastOp' = "is_complete"
    /\ UNCHANGED <<components, report, issues, dbVars, userVars, manager>>

\* Build.calculate_total_wattage() is called
CalculateTotalWattage ==
    /\ returned' = PyInt(calculate_total_wattage(components))
    /\ lastOp' = "calculate_total_wattage"
    /\ UNCHANGED <<components, report, issues, dbVars, userVars, manager>>

RunFullCheck ==
    /\ report' = run_full_check(PartsDict(components))
    /\ lastOp' = "run_full_check"
    /\ UNCHANGED <<components, issues, returned, dbVars, userVars, manager>>

GetCompatibilityIssues ==
    /\ issues' = get_compatibility_issues(components)
    /\ lastOp' = "get_compatibility_issues"
    /\ UNCHANGED <<components, report, returned, dbVars, userVars, manager>>

\* ComponentFactory.create_component(r.id, r.name, category, r.price,
\* r.attributes), the result kept by the caller
CreateComponent(r, category) ==
    /\ returned' = create_component(r.id, r.name, category, r.price, r.attributes).component
    /\ lastOp' = IF create_component(r.id, r.name, category, r.price, r.attributes).ok
                 THEN "created" ELSE "create_rejected"
    /\ UNCHANGED <<components, report, issues, dbVars, userVars, manager>>

\* component.price = value, for the component of a slot of the Build
SetPrice(cat, value) ==
    /\ components[cat] # None
    /\ components' = [components EXCEPT ![cat] = set_price(components[cat], value).component]
    /\ lastOp' = IF set_price(components[cat], value).ok THEN "price_set"
                 ELSE "price_rejected"
    /\ returned' = None
    /\ UNCHANGED <<report, issues, dbVars, userVars, manager>>

\* build.name = value
SetName(value) ==
    /\ build' = set_name(build, value).build
    /\ lastOp' = IF set_name(build, value).ok THEN "name_set" ELSE "name_rejected"
    /\ returned' = None
    /\ UNCHANGED <<components, report, issues, schemaUnique, builds, nextId, call, clock, userVars, manager>>

-----------------------------------------------------------------------------
(* Specifications *)

\* the database before any build is saved and any user registered, and a
\* manager with no history
InitTable ==
    /\ schemaUnique \in {init_db_unique, initialize_schema_unique}
    /\ builds = {}
    /\ nextId = 1
    /\ call = [p \in Callers |-> IdleCall(NoResult)]
    /\ clock = 0
    /\ userRows = {}
    /\ nextUserId = 1
    /\ manager = NewManager(DefaultHistory)

InitReads ==
    /\ lastOp = "init"
    /\ returned = None
    /\ report = <<>>
    /\ issues = <<>>

\* a Build under construction: Build.__init__, then add and remove
InitBuild ==
    /\ components = EmptySlots
    /\ build = NewBuild(None, sPc, 1, 0)
    /\ InitReads
    /\ InitTable
    /\ schemaUnique = initialize_schema_unique

NextBuild ==
    \/ \E c \in Catalogue : AddComponent(c)
    \/ \E label \in Labels : RemoveComponent(label)
    \/ IsComplete
    \/ CalculateTotalWattage

SpecBuild == InitBuild /\ [][NextBuild]_vars

\* the read operations applied to any build
InitCompat ==
    /\ components \in AllBuilds
    /\ build = NewBuild(None, sPc, 1, 0)
    /\ InitReads
    /\ InitTable
    /\ schemaUnique = initialize_schema_unique

NextCompat ==
    \/ RunFullCheck
    \/ GetCompatibilityIssues

SpecCompat == InitCompat /\ [][NextCompat]_vars

\* the builds saved in the persistence specifications
SampleBuilds ==
    { b \in AllBuilds :
        /\ b["CPU"] # None /\ b["CPU"].id = "cpu-1"
        /\ b["Motherboard"] = None \/ b["Motherboard"].id = "mb-1"
        /\ \A cat \in Categories \ {"CPU", "Motherboard"} : b[cat] = None }

\* the parts dicts the views hand to db.save_build
SampleParts == {PartsDict(b) : b \in {c \in SampleBuilds : c["Motherboard"] = None}}

InitDb ==
    /\ components \in SampleBuilds
    /\ build = NewBuild(None, sPc, 1, 0)
    /\ InitReads
    /\ InitTable

\* one caller, working with db.py and with the DatabaseManager
NextDb ==
    \/ \E u \in Users, parts \in SampleParts : DbSaveBuild(1, u, sPc, parts)
    \/ \E u \in Users, k \in ShareKeys : DbImportBuild(1, u, k)
    \/ DmSaveBuild(1)
    \/ \E u \in Users, k \in ShareKeys : DmImportBuild(1, u, k)
    \/ \E id \in 1..MaxBuilds, u \in Users : DmDeleteBuild(1, id, u)
    \/ SelectShareKey(1)
    \/ InsertBuild(1)

SpecDb == InitDb /\ [][NextDb]_vars

\* two callers saving and importing at the same time; caller 1 owns the
\* Build and is the one using the DatabaseManager
NextConc ==
    \/ \E p \in Callers, parts \in SampleParts : DbSaveBuild(p, p, sPc, parts)
    \/ \E p \in Callers, k \in ShareKeys : DbImportBuild(p, p, k)
    \/ DmSaveBuild(1)
    \/ \E p \in Callers : SelectShareKey(p)
    \/ \E p \in Callers : InsertBuild(p)

SpecConc == InitDb /\ [][NextConc]_vars

\* one caller saving builds, by db.py and by the DatabaseManager
NextSave ==
    \/ \E u \in Users, parts \in SampleParts : DbSaveBuild(1, u, sPc, parts)
    \/ DmSaveBuild(1)
    \/ SelectShareKey(1)
    \/ InsertBuild(1)

\* save_build is straight-line code around its loop: a call that has been
\* entered keeps running, so its next pass of the loop and its INSERT are
\* taken when they stay possible
SpecSaveFair ==
    /\ InitDb
    /\ [][NextSave]_vars
    /\ WF_vars(SelectShareKey(1))
    /\ WF_vars(InsertBuild(1))

\* the builds saved and loaded back: the empty one, one for every
\* component of the catalogue, and the sample builds
LoadBuilds ==
    {EmptySlots} \cup {add_component(EmptySlots, c) : c \in Catalogue} \cup SampleBuilds

InitLoad ==
    /\ components \in LoadBuilds
    /\ build = NewBuild(None, sPc, 1, 0)
    /\ InitReads
    /\ InitTable
    /\ schemaUnique = initialize_schema_unique

\* one caller saving its Build with the DatabaseManager and loading builds
\* back while time passes
NextLoad ==
    \/ DmSaveBuild(1)
    \/ SelectShareKey(1)
    \/ InsertBuild(1)
    \/ \E id \in 1..MaxBuilds : DmLoadBuild(1, id)
    \/ \E k \in ShareKeys : DmLoadBuildByShareKey(1, k)
    \/ \E u \in Users : DmLoadUserBuilds(1, u)
    \/ Tick

SpecLoad == InitLoad /\ [][NextLoad]_vars

\* the ids builds are looked up by: those a row can have and one beyond
LookupIds == 1..(MaxBuilds + 1)

\* one caller saving builds with db.py, looking them up and importing them
NextLookup ==
    \/ \E u \in Users, parts \in SampleParts : DbSaveBuild(1, u, sPc, parts)
    \/ SelectShareKey(1)
    \/ InsertBuild(1)
    \/ \E id \in LookupIds : DbLoadBuildById(1, id)
    \/ \E k \in ShareKeys : DbLoadBuildByShareKey(1, k)
    \/ \E u \in Users, k \in ShareKeys : DbImportBuild(1, u, k)

SpecLookup == InitDb /\ [][NextLookup]_vars

\* the usernames and the passwords register is called with: empty, one
\* character short, and long enough
Usernames == {<<>>, <<"a", "b">>, sAbc, <<"A", "b", "c">>, sLong}

sSecret == <<"s", "e", "c", "r", "e", "t">>

Passwords == {<<>>, <<"1", "2", "3", "4", "5">>, sSecret, sSecret \o <<"1">>}

\* accounts registered one after another
NextAccounts ==
    \E username \in Usernames, password \in Passwords : Register(username, password)

SpecAccounts == InitLoad /\ [][NextAccounts]_vars

\* the states save_state is called with: the selected parts of an empty
\* selection and of the sample builds
UndoStates == {PyDict(EmptyDict)} \cup {PyDict(parts) : parts \in SampleParts}

\* a manager made with any max_history from 0 up
InitUndo ==
    /\ components = EmptySlots
    /\ build = NewBuild(None, sPc, 1, 0)
    /\ InitReads
    /\ schemaUnique = initialize_schema_unique
    /\ builds = {}
    /\ nextId = 1
    /\ call = [p \in Callers |-> IdleCall(NoResult)]
    /\ clock = 0
    /\ userRows = {}
    /\ nextUserId = 1
    /\ \E max_history \in 0..MaxHistory : manager = NewManager(max_history)

NextUndo ==
    \/ \E state \in UndoStates : SaveState(state)
    \/ Undo
    \/ Redo
    \/ Clear

SpecUndo == InitUndo /\ [][NextUndo]_vars

\* the prices and the names the setters are called with
Prices == {0 - 1, 0, 100}

Names == {<<>>, <<"a", "b">>, sAbc, sLong}

\* the categories the factory is called with: the 8 tags, one in another
\* case and one that is none
FactoryLabels == Labels \cup {"cpu"}

\* the rows the factory is called with
FactoryRows == CpuRows

\* a Build whose components are repriced and that is renamed, while the
\* factory makes components
NextObjects ==
    \/ \E cat \in Categories, value \in Prices : SetPrice(cat, value)
    \/ \E value \in Names : SetName(value)
    \/ \E r \in FactoryRows, category \in FactoryLabels : CreateComponent(r, category)

SpecObjects == InitLoad /\ [][NextObjects]_vars

Init == InitBuild

Next == NextBuild

Spec == Init /\ [][Next]_vars

-----------------------------------------------------------------------------
(* Properties *)

Absent(cat) == components[cat] = None
Present(cat) == components[cat] # None

\* the attribute is there and int() raises on it
Unparseable(cat, key) ==
    /\ Present(cat)
    /\ key \in DOMAIN components[cat].attributes
    /\ ~ToInt(components[cat].attributes[key]).ok

\* the attribute as a number, when it is there and int() accepts it
Numeric(cat, key) ==
    /\ Present(cat)
    /\ key \in DOMAIN components[cat].attributes
    /\ ToInt(components[cat].attributes[key]).ok

NumberOf(cat, key) == ToInt(components[cat].attributes[key]).v

RuleIds(r) == [k \in 1..Len(r) |-> r[k].rule_id]

FailedCount(r) == Cardinality({k \in 1..Len(r) : ~r[k].passed})

\* the entry of a rule that run_full_check always reports under its own id
EntryOf(r, id) == r[CHOOSE k \in 1..Len(r) : r[k].rule_id = id]

\* S of the headroom rule: the power_draw of the present components other
\* than the PSU, a missing or unparseable one counting 0
DrawOfSlot(cat) == IF Numeric(cat, "power_draw") THEN NumberOf(cat, "power_draw") ELSE 0

SumDraw ==
    DrawOfSlot("CPU") + DrawOfSlot("Motherboard") + DrawOfSlot("RAM") + DrawOfSlot("GPU")
        + DrawOfSlot("Storage") + DrawOfSlot("Case") + DrawOfSlot("Cooler")

SameAttribute(cat1, cat2, key) ==
    /\ key \in DOMAIN components[cat1].attributes
    /\ key \in DOMAIN components[cat2].attributes
    /\ components[cat1].attributes[key] = components[cat2].attributes[key]

\* C1: with two callers in save_build at once, no two rows of the builds
\* table ever carry the same share_key.
C1_NoDuplicateUnderRace ==
    \A r1 \in builds, r2 \in builds : r1.id # r2.id => r1.share_key # r2.share_key

\* C2: with one caller, after any saves, imports and deletes the share keys
\* of the rows are pairwise distinct, and a key that passed the check of
\* save_build is the key of no row.
C2_DistinctShareKeys ==
    /\ Cardinality({r.share_key : r \in builds}) = Cardinality(builds)
    /\ call[1].pc = "insert" => \A r \in builds : r.share_key # PyStr(call[1].share_key)

\* a save, an import and a delete have happened and two rows are left
C2_Witness ==
    /\ Cardinality(builds) = 2
    /\ nextId > 3
    /\ \E r \in builds : r.name = sPc \o sImported

\* C3: run_full_check returns one entry per rule, with the identifiers
\* cpu_socket, ram_mobo, case_form_factor, case_gpu_clearance, psu_wattage
\* in this order, for every build.
C3_FiveFixedEntries ==
    report # <<>> =>
        RuleIds(report) = <<"cpu_socket", "ram_mobo", "case_form_factor",
                            "case_gpu_clearance", "psu_wattage">>

\* C4: when a side of a pairwise rule is absent the report still has the
\* entry of the rule, third for the form factor and fourth for the GPU
\* clearance, and the entry passes.
C4_AbsentSideStillReported ==
    report # <<>> =>
        /\ Len(report) = 5
        /\ Absent("CPU") \/ Absent("Motherboard") => report[1].passed
        /\ Absent("RAM") \/ Absent("Motherboard") => report[2].passed
        /\ Absent("Motherboard") \/ Absent("Case") => report[3].passed
        /\ Absent("GPU") \/ Absent("Case") => report[4].passed

C6_MissingSlotsLenient ==
    report # <<>> /\ Present("Motherboard") /\ Present("RAM")
        /\ "memory_slots" \notin DOMAIN components["Motherboard"].attributes
        /\ SameAttribute("RAM", "Motherboard", "memory_type")
    => EntryOf(report, "ram_mobo").passed

\* C7: an attribute on which int() raises never makes the rule reading it
\* fail: ram_mobo with equal memory types, the GPU clearance (the entry
\* before psu_wattage when GPU and Case are present), and psu_wattage for an
\* unparseable wattage or, with nothing else drawing power, power_draw.
C7_UnparseableNeverFails ==
    report # <<>> =>
        /\ Present("Motherboard") /\ Present("RAM")
              /\ SameAttribute("RAM", "Motherboard", "memory_type")
              /\ (Unparseable("Motherboard", "memory_slots") \/ Unparseable("RAM", "sticks"))
           => EntryOf(report, "ram_mobo").passed
        /\ Present("GPU") /\ Present("Case")
              /\ (Unparseable("GPU", "length_mm") \/ Unparseable("Case", "max_gpu_length_mm"))
           => report[Len(report) - 1].passed
        /\ Unparseable("PSU", "wattage") => EntryOf(report, "psu_wattage").passed
        /\ Numeric("PSU", "wattage") /\ NumberOf("PSU", "wattage") >= 0 /\ SumDraw = 0
              /\ (\E cat \in Categories \ {"PSU"} : Unparseable(cat, "power_draw"))
           => EntryOf(report, "psu_wattage").passed

HasIssue(first, second) ==
    \E k \in 1..Len(issues) : issues[k].first = first /\ issues[k].second = second

\* C8: get_compatibility_issues lists exactly the failed entries of the
\* report of run_full_check for the same components: as many issues as
\* failed entries, and an issue for a rule if and only if its entry failed.
C8_IssuesAreFailedEntries ==
    report # <<>> /\ lastOp = "get_compatibility_issues" =>
        /\ Len(issues) = FailedCount(report)
        /\ HasIssue("CPU", "Motherboard") <=> ~EntryOf(report, "cpu_socket").passed
        /\ HasIssue("Motherboard", "RAM") <=> ~EntryOf(report, "ram_mobo").passed
        /\ HasIssue("PSU", "PSU") <=> ~EntryOf(report, "psu_wattage").passed

\* C9: after any adds and removes the Build has exactly the 8 slots, and a
\* slot is empty or holds a component of the category of its key.
C9_OneSlotPerCategory ==
    /\ DOMAIN components = Categories
    /\ Cardinality(DOMAIN components) = 8
    /\ \A cat \in DOMAIN components :
          components[cat] = None \/ get_category(components[cat]) = cat

\* an occupied slot has just been replaced while another slot is empty
C9_Witness ==
    /\ lastOp = "replace"
    /\ Present("CPU")
    /\ Absent("GPU")

\* C10: once the Build has a build_id and a share_key, no step changes
\* either of them.
C10_IdentityImmutable ==
    [][build.build_id # None /\ build.share_key # None =>
          /\ build'.build_id = build.build_id
          /\ build'.share_key = build.share_key]_vars

\* the step is one of the save_build of an import of caller p
ImportStep(p) == call[p].api \in {"db_import", "dm_import"} /\ call'[p] # call[p]

\* C11: an import by share key persists no record and returns no build_id
\* and no share_key: no step of an import adds a row to the builds table,
\* and an import never ends with the tuple (build_id, share_key) of a save.
C11_ImportPersistsNothing ==
    [][ImportStep(1) => builds' = builds /\ call'[1].result.kind # "saved"]_vars

\* C12: an import changes and removes no row of the builds table, and the
\* row it adds is a copy of the row of the imported share key under a new
\* id: the same parts, and the name of the original followed by
\* " (imported)".
C12_ImportCopiesOriginal ==
    [][ImportStep(1) =>
          /\ builds \subseteq builds'
          /\ builds' # builds =>
                \E orig \in builds, copy \in builds' \ builds :
                    /\ builds' = builds \cup {copy}
                    /\ orig.share_key = PyStr(call[1].source)
                    /\ \A r \in builds : copy.id # r.id
                    /\ copy.name = orig.name \o sImported
                    /\ json_loads(copy.parts_json) = json_loads(orig.parts_json)]_vars

\* user 2 has imported a build of user 1 that has two components, and
\* both rows are in the table
C12_Witness ==
    /\ call[1].result.kind = "saved"
    /\ \E orig \in builds, copy \in builds :
          /\ orig.user_id = 1 /\ orig.name = sPc
          /\ json_loads(orig.parts_json)["Motherboard"] # None
          /\ copy.user_id = 2 /\ copy.id = call[1].result.build_id
          /\ copy.name = sPc \o sImported
          /\ copy.parts_json = orig.parts_json

\* the Build objects the last load returned
LoadedBack ==
    {call[1].result.loaded[k] : k \in 1..Len(call[1].result.loaded)}

\* C13: a Build loaded back by its build_id, by its share_key or in the
\* list of its owner has the name, the owner, the share_key and the
\* created_at of the saved Build, and in every slot the same component or
\* nothing as the saved Build.
C13_RoundTripLossless ==
    \A b \in LoadedBack :
        b.build.build_id = build.build_id =>
            /\ b.build.name = build.name
            /\ b.build.user_id = build.user_id
            /\ b.build.share_key = build.share_key
            /\ b.build.created_at = build.created_at
            /\ \A cat \in Categories : b.components[cat] = components[cat]

\* C14: a component rebuilt by ComponentFactory.create_component from the
\* record to_dict made of it is of the same variant and has the same id,
\* name, category, price and attributes, for the components of all 8
\* categories: every loaded Build holds such a rebuilt component in every
\* slot the saved Build has a component in.
C14_FactoryRoundTrip ==
    \A b \in LoadedBack, cat \in Categories :
        components[cat] # None =>
            /\ b.components[cat] # None
            /\ b.components[cat].cls = components[cat].cls
            /\ get_category(b.components[cat]) = cat
            /\ b.components[cat].id = components[cat].id
            /\ b.components[cat].name = components[cat].name
            /\ b.components[cat].price = components[cat].price
            /\ b.components[cat].attributes = components[cat].attributes

\* a Motherboard with a power_draw, a str and an int attribute was saved
\* and two Builds holding it were loaded in a list
C14_Witness ==
    /\ call[1].result.kind = "list"
    /\ Len(call[1].result.loaded) = 2
    /\ components["Motherboard"] # None
    /\ components["Motherboard"].id = "mb-3"
    /\ \A b \in LoadedBack :
          b.components["Motherboard"].attributes =
              [socket |-> PyStr(sAM5), memory_type |-> PyStr(sDDR5),
               memory_slots |-> PyStr(sTwo), power_draw |-> PyInt(3)]

\* the power_draw of the component of a slot when it is a number, else 0
PowerDrawOf(cat) ==
    IF Present(cat) /\ "power_draw" \in DOMAIN components[cat].attributes
          /\ IsNumber(components[cat].attributes["power_draw"])
    THEN components[cat].attributes["power_draw"].i
    ELSE 0

\* C15: calculate_total_wattage returns the sum of the power_draw of all
\* the components of the build, a missing power_draw and one that is no
\* number counting 0, and so 0 for the empty build.
C15_TotalIsSumOfPowerDraw ==
    lastOp = "calculate_total_wattage" =>
        returned = PyInt(PowerDrawOf("CPU") + PowerDrawOf("Motherboard") + PowerDrawOf("RAM")
                         + PowerDrawOf("GPU") + PowerDrawOf("Storage") + PowerDrawOf("PSU")
                         + PowerDrawOf("Case") + PowerDrawOf("Cooler"))

\* C16: is_complete returns true if and only if CPU, Motherboard, RAM,
\* Storage, PSU and Case are all present, whatever the GPU and Cooler slots
\* hold; and when a PSU is added to a build that has the other five and no
\* PSU, is_complete is false before the step and true after it.
C16_CompleteIffSixPresent ==
    [][/\ lastOp' = "is_complete" =>
             returned' = PyBool(/\ components'["CPU"] # None
                                /\ components'["Motherboard"] # None
                                /\ components'["RAM"] # None
                                /\ components'["Storage"] # None
                                /\ components'["PSU"] # None
                                /\ components'["Case"] # None)
       /\ (/\ Present("CPU") /\ Present("Motherboard") /\ Present("RAM")
           /\ Present("Storage") /\ Present("Case")
           /\ Absent("PSU") /\ components'["PSU"] # None)
          => ~is_complete(components) /\ is_complete(components')]_vars

\* is_complete has returned true for a build without GPU and Cooler
C16_Witness ==
    /\ lastOp = "is_complete"
    /\ returned = PyBool(TRUE)
    /\ Absent("GPU") /\ Absent("Cooler")
    /\ Present("PSU")

\* C17: delete_build(build_id, user_id) returns True and removes the one
\* row with that id when the row is owned by user_id; for an id no row has,
\* or a row of another owner, it returns False and the table is unchanged.
C17_DeleteOnlyByOwner ==
    [][\A id \in 1..MaxBuilds, u \in Users :
          DmDeleteBuild(1, id, u) =>
              IF \E r \in builds : r.id = id /\ r.user_id = u
              THEN /\ call'[1].result.kind = "True"
                   /\ builds' = {r \in builds : r.id # id}
                   /\ Cardinality(builds') = Cardinality(builds) - 1
              ELSE /\ call'[1].result.kind = "False"
                   /\ builds' = builds]_vars

\* an owner has deleted one of two builds and the build of the other user
\* is still in the table
C17_Witness ==
    /\ call[1].result.kind = "True"
    /\ nextId = 3
    /\ \E r \in builds : builds = {r} /\ r.user_id = 2

\* C18: without a PSU the psu_wattage entry has passed = false and the
\* message "No PSU selected", for every build, the empty one included.
C18_NoPsuAlwaysFails ==
    report # <<>> /\ Absent("PSU") =>
        /\ ~EntryOf(report, "psu_wattage").passed
        /\ EntryOf(report, "psu_wattage").message = Msg("No PSU selected", <<>>)

\* the report of the empty build
C18_Witness ==
    /\ report # <<>>
    /\ \A cat \in Categories : Absent(cat)
    /\ ~report[Len(report)].passed

\* the socket attribute of a slot, None when it has none
SocketOf(cat) == Get(components[cat].attributes, "socket", None)

\* C19: with a CPU and a Motherboard, cpu_socket passes if and only if the
\* two socket values are the same string, character for character, and
\* the message of a failed entry carries both socket values.
C19_SocketExactMatch ==
    report # <<>> /\ Present("CPU") /\ Present("Motherboard") =>
        /\ EntryOf(report, "cpu_socket").passed <=> SocketOf("CPU") = SocketOf("Motherboard")
        /\ ~EntryOf(report, "cpu_socket").passed =>
              EntryOf(report, "cpu_socket").message.args
                  = <<SocketOf("CPU"), SocketOf("Motherboard")>>

\* the sockets am5 and AM5 differ only in case and the entry has failed
C19_Witness ==
    /\ report # <<>>
    /\ Present("CPU") /\ Present("Motherboard")
    /\ SocketOf("CPU") = PyStr(sam5)
    /\ SocketOf("Motherboard") = PyStr(sAM5)
    /\ ~report[1].passed
    /\ report[1].message.args = <<PyStr(sam5), PyStr(sAM5)>>

\* the Case has a list of supported form factors that is not empty
HasFormList ==
    /\ "supported_form_factors" \in DOMAIN components["Case"].attributes
    /\ components["Case"].attributes["supported_form_factors"].t = "str"
    /\ components["Case"].attributes["supported_form_factors"].s # <<>>

\* the form_factor of the Motherboard is a str and one of the pieces
\* between the commas of the list of the Case
FormFactorListed ==
    /\ HasFormList
    /\ "form_factor" \in DOMAIN components["Motherboard"].attributes
    /\ components["Motherboard"].attributes["form_factor"].t = "str"
    /\ LET pieces == Split(components["Case"].attributes["supported_form_factors"].s, ",")
       IN  \E k \in 1..Len(pieces) :
               pieces[k] = components["Motherboard"].attributes["form_factor"].s

\* C20, as claimed: with a Motherboard and a Case, the form factor entry
\* (the third of the report) passes if and only if the form_factor of the
\* Motherboard is an element of the comma-separated list of the Case.
C20_FormFactorIffListed ==
    report # <<>> /\ Present("Motherboard") /\ Present("Case") =>
        (report[3].passed <=> FormFactorListed)

\* C20, amended: with a Motherboard and a Case, the form factor entry
\* passes if and only if the Case has no list of supported form factors,
\* or an empty one, or the form_factor of the Motherboard is an element of
\* the list.
C20_FormFactorUnlessNoList ==
    report # <<>> /\ Present("Motherboard") /\ Present("Case") =>
        (report[3].passed <=> (~HasFormList \/ FormFactorListed))

\* an ATX Motherboard in a Case without a list passes
C20_Witness ==
    /\ report # <<>>
    /\ Present("Motherboard") /\ Present("Case")
    /\ components["Motherboard"].id = "mb-1"
    /\ ~HasFormList
    /\ report[3].rule_id = "case_check_0"
    /\ report[3].passed

\* C21: with a GPU and a Case, the GPU clearance entry (the one before
\* psu_wattage) fails if and only if length_mm of the GPU and
\* max_gpu_length_mm of the Case are both there as numbers and the length
\* is the greater; it passes when either is missing or no number.
C21_ClearanceFailsIffLonger ==
    report # <<>> /\ Present("GPU") /\ Present("Case") =>
        (~report[Len(report) - 1].passed
            <=> /\ Numeric("GPU", "length_mm")
                /\ Numeric("Case", "max_gpu_length_mm")
                /\ NumberOf("GPU", "length_mm") > NumberOf("Case", "max_gpu_length_mm"))

\* C22: a price below 0 and a name of fewer than 3 characters are
\* rejected, and the rejected call leaves the price, the name and every
\* other field of the components and of the Build as they were.
C22_RejectedSetterChangesNothing ==
    [][/\ \A cat \in Categories, value \in Prices :
             SetPrice(cat, value) /\ value < 0 =>
                 /\ lastOp' = "price_rejected"
                 /\ components' = components /\ build' = build
       /\ \A value \in Names :
             SetName(value) /\ Len(value) < 3 =>
                 /\ lastOp' = "name_rejected"
                 /\ components' = components /\ build' = build]_vars

\* a price of -1 was rejected after the price was set to 100, and the
\* Build was renamed before
C22_Witness ==
    /\ lastOp = "price_rejected"
    /\ build.name = sAbc
    /\ \E cat \in Categories : Present(cat) /\ components[cat].price = 100

\* C23: create_component raises for every category that is not one of the 8
\* tags, makes no component and leaves the Build and the stored builds as
\* they were; for each of the 8 tags it returns a component of that
\* category.
C23_FactoryRejectsUnknown ==
    [][\A r \in FactoryRows, category \in FactoryLabels :
          CreateComponent(r, category) =>
              /\ components' = components /\ build' = build /\ builds' = builds
              /\ IF category \in Categories
                 THEN /\ lastOp' = "created"
                      /\ returned' # None
                      /\ get_category(returned') = category
                 ELSE lastOp' = "create_rejected" /\ returned' = None]_vars

\* the factory refused a category while the Build holds a component
C23_Witness ==
    /\ lastOp = "create_rejected"
    /\ returned = None
    /\ \E cat \in Categories : Present(cat)

\* C24: load_build_by_id with an id no row has and load_build_by_share_key
\* with a key no row has return None; import_build_from_share_key with a
\* key no row has returns None, starts no save and adds no row; none of
\* them raises.
C24_UnknownLookupReturnsNone ==
    [][/\ \A id \in LookupIds :
             DbLoadBuildById(1, id) /\ (\A r \in builds : r.id # id) =>
                 call'[1] = IdleCall(ReturnedNone) /\ builds' = builds
       /\ \A k \in ShareKeys :
             DbLoadBuildByShareKey(1, k) /\ (\A r \in builds : r.share_key # PyStr(k)) =>
                 call'[1] = IdleCall(ReturnedNone) /\ builds' = builds
       /\ \A u \in Users, k \in ShareKeys :
             DbImportBuild(1, u, k) /\ (\A r \in builds : r.share_key # PyStr(k)) =>
                 /\ call'[1] = IdleCall(ReturnedNone)
                 /\ builds' = builds /\ nextId' = nextId]_vars

\* a lookup returned None while a build is stored
C24_Witness ==
    /\ call[1].result = ReturnedNone
    /\ call[1].pc = "idle"
    /\ builds # {}

\* C25: register succeeds exactly when the username has 3 characters or
\* more, the password has 6 or more and no user has the username; a
\* success adds one user with that username and password, a failure leaves
\* the users as they were, and no two users ever share a username.
C25_RegisterIffValidAndNew ==
    [][\A username \in Usernames, password \in Passwords :
          Register(username, password) =>
              LET valid == /\ Len(username) >= 3
                           /\ Len(password) >= 6
                           /\ \A r \in userRows : r.username # username
              IN  /\ returned'.ok = PyBool(valid)
                  /\ ~valid => userRows' = userRows
                  /\ valid =>
                        /\ userRows \subseteq userRows'
                        /\ Cardinality(userRows') = Cardinality(userRows) + 1
                        /\ \E r \in userRows' \ userRows :
                              /\ r.username = username
                              /\ r.password_hash = hash_password(password)
                  /\ \A r1, r2 \in userRows' :
                        r1.username = r2.username \/ r1.id = r2.id => r1 = r2]_vars

\* a second registration of a username was refused while its account
\* keeps the first password
C25_Witness ==
    /\ lastOp = "register"
    /\ returned.ok = PyBool(FALSE)
    /\ returned.message = Msg("Username already exists", <<>>)
    /\ \E r \in userRows : r.username = sAbc /\ r.password_hash = hash_password(sSecret)
    /\ Cardinality(userRows) = 2

C27_RejectedInsertIsRetried ==
    [][\A p \in Callers :
          /\ InsertBuild(p)
          /\ insert_rejected(schemaUnique, builds, call[p].share_key)
          => call'[p].pc = "check" /\ call'[p].result # Raised]_vars

\* C28: the loop of save_build that looks for a free share key is always
\* left: a call that is in the loop gets out of it, with a key or with a
\* failure, however many of the generated keys are taken.
C28_AllocationLoopTerminates ==
    (call[1].pc = "check") ~> (call[1].pc # "check")

\* C29: add_component(c) puts c in the slot of its category, whatever the
\* slot held, and remove_component(category) empties the slot of the
\* category; the other seven slots and the build_id, name, owner and
\* share_key of the Build stay as they were, and remove_component with a
\* label that is none of the 8 categories changes nothing.
C29_OnlyAddressedSlotChanges ==
    [][/\ \A c \in Catalogue :
             lastOp' \in {"add_component", "replace"} /\ AddComponent(c) =>
                 /\ components'[get_category(c)] = c
                 /\ \A cat \in Categories \ {get_category(c)} :
                       components'[cat] = components[cat]
                 /\ DOMAIN components' = Categories
                 /\ build' = build
       /\ \A label \in Labels :
             lastOp' \in {"remove_component", "remove_empty", "remove_unknown"}
                 /\ RemoveComponent(label) =>
                 /\ label \in Categories => components'[label] = None
                 /\ \A cat \in Categories \ {label} : components'[cat] = components[cat]
                 /\ DOMAIN components' = Categories
                 /\ build' = build]_vars

\* a removal by a label that is no category left a Build of three
\* components as it was
C29_Witness ==
    /\ lastOp = "remove_unknown"
    /\ Present("CPU") /\ Present("GPU") /\ Present("Case")

\* C30: whatever save_state, undo, redo and clear calls were made, the
\* undo stack and the redo stack together hold at most max_history
\* states; undo and redo leave the sum of the two lengths as it was, and
\* save_state leaves the redo stack empty.
C30_HistoryWithinMax ==
    [][/\ Len(manager'.undo_stack) + Len(manager'.redo_stack) <= manager'.max_history
       /\ Undo \/ Redo =>
             Len(manager'.undo_stack) + Len(manager'.redo_stack)
                 = Len(manager.undo_stack) + Len(manager.redo_stack)
       /\ \A state \in UndoStates :
             SaveState(state) => manager'.redo_stack = <<>>]_vars

\* a redo has filled the undo stack up to max_history
C30_Witness ==
    /\ lastOp = "redo"
    /\ returned # None
    /\ manager.max_history = 2
    /\ Len(manager.undo_stack) = 2

====
